---- MODULE Spec2Model ----
(***************************************************************************)
(* Model of app.py: the serial ECG monitor.                                *)
(*                                                                         *)
(* Threads: the Flask request handlers (connect, disconnect, get_data,     *)
(* get_heart_rate) and the daemon threads running read_serial_data.        *)
(* A thread's step ends where another thread's write to a module global    *)
(* could change what it does next, so the handlers and the workers         *)
(* interleave between source lines as the threads do.  time.sleep() only   *)
(* delays a thread: it orders nothing.                                     *)
(*                                                                         *)
(* Samples are integers; timestamps are integers counting 10 ms units,     *)
(* so 0.01 s = 1, 0.3 s = 30, 2.0 s = 200 and 60 s = 6000.                 *)
(***************************************************************************)
EXTENDS Integers, Sequences, FiniteSets, TLC

\* ---- bounds of the model ------------------------------------------------
MaxSamples == 2
MaxRequests == 1
MaxWorkers == 2
Prefill == 100

Values == {0, 5}
Ticks == {1, 31}
Workers == 1..MaxWorkers

\* ---- program constants --------------------------------------------------
max_data_points == 100
WarmUp == 10
Window == 20
LastPeaksMaxlen == 10
PeakValuesMaxlen == 30
PeakLag == 1
MinInterval == 30
MaxInterval == 200
MinHR == 30
MaxHR == 200
SixtySeconds == 6000

VARIABLES
  serial_connection,  \* "None", or the Serial object's state: "open" / "closed"
  is_monitoring,
  ecg_data,
  heart_rate,
  last_peaks,
  peak_values,
  lock,               \* 0 = free, otherwise the worker holding it
  wpc,                \* position of each read_serial_data thread
  wvalue,             \* its local value
  wtime,              \* its local current_time
  wtmp,               \* the slice ecg_data[-max_data_points:] before it is stored
  wstats,             \* its locals of detect_peaks_and_calculate_hr: window size, sum, sum of squares
  now,                \* the last reading of time.time()
  nsamples,           \* numeric lines read from the transport
  nworkers,           \* threads started so far
  hpc,                \* position of the connect / disconnect handler
  nreq,               \* connect / disconnect requests made so far
  request,            \* the request being handled, or the last one handled
  response,           \* the message of the last response
  rpc,                \* the reading handler: "idle", "data" or "hr"
  data_to_send,       \* what get_data returns
  hr_sent,            \* what get_heart_rate returns
  hist,               \* history: samples appended since ecg_data was last reset
  stable,             \* history: ecg_data as the last completed ingestion step or reset left it
  straddle,           \* history: the last reset fell inside an ingestion step
  valid_seen,         \* history: most valid intervals last_peaks has held since the program started
  valid_sess,         \* history: the same, since the last session start
  stop_seen,          \* history: per worker, a stop request was made while it was running
  stopped,            \* history: a disconnect has returned and no session has started since
  ecg_times,          \* history: the arrival time (current_time) of each sample of ecg_data
  wtmp_times,         \* history: the same for the slice wtmp
  evaluated,          \* history: arrival times of the samples that line 53 tested, one entry per test
  recorded,           \* history: arrival times of the samples that lines 57-58 recorded as peaks
  before              \* history: what the connect being handled found when it was called

vars == << serial_connection, is_monitoring, ecg_data, heart_rate, last_peaks,
           peak_values, lock, wpc, wvalue, wtime, wtmp, wstats, now, nsamples,
           nworkers, hpc, nreq, request, response, rpc, data_to_send, hr_sent,
           hist, stable, straddle, valid_seen, valid_sess, stop_seen, stopped,
           ecg_times, wtmp_times, evaluated, recorded, before >>

shared == << ecg_data, last_peaks, peak_values, heart_rate >>
wlocals == << wvalue, wtime, wtmp, wstats >>
handler == << hpc, nreq, request, response >>
reader == << rpc, data_to_send, hr_sent >>

\* ---- helpers ------------------------------------------------------------
Zeros(n) == [i \in 1..n |-> 0]

\* s[-n:]
LastN(s, n) == IF Len(s) > n THEN SubSeq(s, Len(s) - n + 1, Len(s)) ELSE s

RECURSIVE SumSeq(_)
SumSeq(s) == IF s = << >> THEN 0 ELSE Head(s) + SumSeq(Tail(s))

RECURSIVE SumSq(_)
SumSq(s) == IF s = << >> THEN 0 ELSE Head(s) * Head(s) + SumSq(Tail(s))

NoStats == [n |-> 0, sum |-> 0, sq |-> 0]

\* no connect is being handled
NoCall == << >>

\* deque(maxlen=m).append(v)
DequeAppend(q, v, m) == LastN(Append(q, v), m)

\* a truncation that keeps the oldest entries: ecg_data[:max_data_points]
TruncateFront(s) == IF Len(s) > max_data_points THEN SubSeq(s, 1, max_data_points) ELSE s

\* ecg_data = ecg_data[-max_data_points:], the right-hand side
Truncate(s) == LastN(s, max_data_points)

\* recent_data, and np.mean / np.std of it kept as (n, sum, sum of squares)
RecentStats(e) ==
  LET w == LastN(e, Window)
  IN [n |-> Len(w), sum |-> SumSeq(w), sq |-> SumSq(w)]

\* a threshold of 5 standard deviations above the mean
AboveThresholdFiveSigma(x, st) ==
  LET d == st.n * x - st.sum
  IN d > 0 /\ d * d > 25 * (st.n * st.sq - st.sum * st.sum)

\* x > mean_val + 2.5 * std_val, with mean = sum/n and std = sqrt(n*sq - sum^2)/n
AboveThreshold(x, st) ==
  LET d == st.n * x - st.sum
  IN d > 0 /\ 4 * d * d > 25 * (st.n * st.sq - st.sum * st.sum)

\* x - mean_val > min_peak_height = std_val * 1.5
AboveNoise(x, st) ==
  LET d == st.n * x - st.sum
  IN d > 0 /\ 4 * d * d > 9 * (st.n * st.sq - st.sum * st.sum)

\* the conditions of lines 53 and 55 on the buffer e (len(e) >= 3)
IsPeak(e, st) ==
  LET x == e[Len(e) - 1]
  IN /\ x > e[Len(e) - 2]
     /\ x > e[Len(e)]
     /\ AboveThreshold(x, st)
     /\ AboveNoise(x, st)

\* an interval filter that keeps every interval
ValidIntervalAny(d) == TRUE

\* 0.3 <= interval <= 2.0
ValidInterval(d) == MinInterval <= d /\ d <= MaxInterval

\* peak_intervals: the positions i whose interval last_peaks[i] - last_peaks[i-1] is kept
PeakIntervals(lp) == {i \in 2..Len(lp) : ValidInterval(lp[i] - lp[i-1])}

RECURSIVE SumIntervals(_, _)
SumIntervals(lp, S) ==
  IF S = {} THEN 0
  ELSE LET i == CHOOSE j \in S : TRUE
       IN (lp[i] - lp[i-1]) + SumIntervals(lp, S \ {i})

\* a rate estimate that averages every interval and publishes it unchecked
RateEstimateUnfiltered(lp, hr) ==
  IF Len(lp) >= 2 /\ lp[Len(lp)] > lp[1]
  THEN (SixtySeconds * (Len(lp) - 1)) \div (lp[Len(lp)] - lp[1])
  ELSE hr

\* heart_rate after lines 61-78, given the queue lp and the previous estimate hr
RateEstimate(lp, hr) ==
  LET S == PeakIntervals(lp)
  IN IF Len(lp) >= 2 /\ S # {}
     THEN LET current_hr == (SixtySeconds * Cardinality(S)) \div SumIntervals(lp, S)
          IN IF MinHR <= current_hr /\ current_hr <= MaxHR THEN current_hr ELSE hr
     ELSE hr

Min(a, b) == IF a < b THEN a ELSE b
Max(a, b) == IF a > b THEN a ELSE b

\* ---- initial states -----------------------------------------------------
\* Either the freshly imported module, or a first session, running with its
\* worker between two steps or stopped by a disconnect, after the samples of
\* one of these runs, 10 ms apart:
\*   Baseline:  Prefill samples, flat and then one pulse (5, 0), which the step
\*              of the sample after the pulse recorded as a peak at time 0;
\*   TwoPulses: Prefill samples with two pulses Window samples (0.2 s) apart,
\*              both recorded, the interval too short for a rate, and then
\*              flat again.
\* The session of TwoPulses was started by the last request that is followed.
Baseline == Zeros(Prefill - 2) \o << 5, 0 >>

TwoPulses ==
  Zeros(Prefill - 2 * Window) \o << 5, 0 >> \o Zeros(Window - 2) \o << 5, 0 >>
    \o Zeros(Window - 2)

\* the arrival times of n samples that came 10 ms apart, the last one at time t
Arrivals(n, t) == [i \in 1..n |-> t - (n - i)]

\* of a session's samples with arrival times ts, those that line 53 has tested:
\* all but the last, from the one before the WarmUp-th on
Tested(ts) == IF Len(ts) >= WarmUp THEN SubSeq(ts, WarmUp - 1, Len(ts) - 1) ELSE << >>

InitCommon ==
  /\ heart_rate = 0
  /\ lock = 0
  /\ wvalue = [w \in Workers |-> 0]
  /\ wtime = [w \in Workers |-> 0]
  /\ wtmp = [w \in Workers |-> << >>]
  /\ wstats = [w \in Workers |-> NoStats]
  /\ nsamples = 0
  /\ hpc = "idle"
  /\ rpc = "idle"
  /\ data_to_send = << >>
  /\ hr_sent = 0
  /\ straddle = FALSE
  /\ valid_seen = 0
  /\ valid_sess = 0
  /\ wtmp_times = [w \in Workers |-> << >>]
  /\ before = NoCall

InitFresh ==
  /\ serial_connection = "None"
  /\ is_monitoring = FALSE
  /\ request = "none"
  /\ response = "none"
  /\ ecg_data = << >>
  /\ last_peaks = << >>
  /\ peak_values = << >>
  /\ now = 0
  /\ wpc = [w \in Workers |-> "unborn"]
  /\ nworkers = 0
  /\ nreq = 0
  /\ stop_seen = [w \in Workers |-> FALSE]
  /\ stopped = FALSE
  /\ hist = << >>
  /\ stable = << >>
  /\ ecg_times = << >>
  /\ evaluated = << >>
  /\ recorded = << >>

\* what the steps of `samples`, the last of them read at time t, leave behind
Ingested(samples, t) ==
  /\ ecg_data = Truncate(samples)
  /\ now = t
  /\ nworkers = 1
  /\ hist = samples
  /\ stable = Truncate(samples)
  /\ ecg_times = Truncate(Arrivals(Len(samples), t))
  /\ evaluated = Tested(Arrivals(Len(samples), t))

\* the first session after the steps of `samples`
InitSession(samples, t) ==
  /\ Ingested(samples, t)
  /\ serial_connection = "open"
  /\ is_monitoring = TRUE
  /\ request = "connect"
  /\ response = "Connected"
  /\ wpc = [w \in Workers |-> IF w = 1 THEN "loop" ELSE "unborn"]
  /\ stop_seen = [w \in Workers |-> FALSE]
  /\ stopped = FALSE

InitRunning ==
  /\ InitSession(Baseline, PeakLag)
  /\ nreq = 0
  /\ last_peaks = << 0 >>
  /\ peak_values = << 5 >>
  /\ recorded = << 0 >>

InitRunningTwo ==
  /\ InitSession(TwoPulses, 2 * Window - PeakLag)
  /\ nreq = MaxRequests
  /\ last_peaks = << 0, Window >>
  /\ peak_values = << 5, 5 >>
  /\ recorded = << 0, Window >>

\* the session of Baseline after a disconnect has returned and its worker has exited
InitStopped ==
  /\ Ingested(Baseline, PeakLag)
  /\ serial_connection = "None"
  /\ is_monitoring = FALSE
  /\ request = "disconnect"
  /\ response = "Disconnected"
  /\ wpc = [w \in Workers |-> IF w = 1 THEN "exit" ELSE "unborn"]
  /\ stop_seen = [w \in Workers |-> w = 1]
  /\ stopped = TRUE
  /\ nreq = 0
  /\ last_peaks = << 0 >>
  /\ peak_values = << 5 >>
  /\ recorded = << 0 >>

Init ==
  InitCommon /\ (InitFresh \/ InitRunning \/ InitRunningTwo \/ InitStopped)

\* A second session, started by the last request that is followed while the
\* worker of the first session was running and missed the stop request, so
\* that both workers are alive.  The session has ingested Overlap, flat and
\* then one high sample, the last one at time 0; worker 1 has then read a 0 at
\* time 1 (lines 90-93) and has not yet taken the lock.
Overlap == Zeros(Window - 3) \o << 5 >>

InitOverlap ==
  /\ serial_connection = "open"
  /\ is_monitoring = TRUE
  /\ request = "connect"
  /\ response = "Connected"
  /\ hpc = "idle"
  /\ nreq = MaxRequests
  /\ ecg_data = Overlap
  /\ heart_rate = 0
  /\ last_peaks = << >>
  /\ peak_values = << >>
  /\ lock = 0
  /\ nworkers = 2
  /\ wpc = [w \in Workers |-> IF w = 1 THEN "lock" ELSE IF w = 2 THEN "loop" ELSE "unborn"]
  /\ wvalue = [w \in Workers |-> 0]
  /\ wtime = [w \in Workers |-> IF w = 1 THEN 1 ELSE 0]
  /\ wtmp = [w \in Workers |-> << >>]
  /\ wstats = [w \in Workers |-> NoStats]
  /\ now = 1
  /\ nsamples = 0
  /\ rpc = "idle"
  /\ data_to_send = << >>
  /\ hr_sent = 0
  /\ hist = Overlap
  /\ stable = Overlap
  /\ straddle = FALSE
  /\ valid_seen = 0
  /\ valid_sess = 0
  /\ stop_seen = [w \in Workers |-> w = 1]
  /\ stopped = FALSE
  /\ ecg_times = Arrivals(Len(Overlap), 0)
  /\ wtmp_times = [w \in Workers |-> << >>]
  /\ evaluated = Tested(Arrivals(Len(Overlap), 0))
  /\ recorded = << >>
  /\ before = NoCall

\* ---- history bookkeeping -------------------------------------------------
Alive(w) == wpc[w] \notin {"unborn", "exit"}

InStep(w) == wpc[w] \in {"store", "detect", "peak"}

NoteStop == stop_seen' = [w \in Workers |-> stop_seen[w] \/ Alive(w)]

NotePeaks(lp) ==
  /\ valid_seen' = Max(valid_seen, Cardinality(PeakIntervals(lp)))
  /\ valid_sess' = Max(valid_sess, Cardinality(PeakIntervals(lp)))

history == << hist, stable, straddle, valid_seen, valid_sess, stop_seen, stopped >>

ledger == << ecg_times, wtmp_times, evaluated, recorded, before >>

\* what connect itself assigns before it opens the port: the monitoring flag
\* and the state of the connection
Snapshot == << serial_connection, is_monitoring >>

\* A reading handler's copy is local to its request and nothing reads it, so
\* sending it commutes with every other step: it is always scheduled first.
NoReply == rpc = "idle"

\* ---- read_serial_data ---------------------------------------------------
\* line 87: while is_monitoring and serial_connection
w_loop(w) ==
  /\ NoReply
  /\ wpc[w] = "loop"
  /\ wpc' = [wpc EXCEPT ![w] = IF is_monitoring /\ serial_connection # "None"
                               THEN "poll" ELSE "exit"]
  /\ UNCHANGED << serial_connection, is_monitoring, shared, lock, wlocals, now,
                  nsamples, nworkers, handler, reader, history, ledger >>

\* lines 89, 106: in_waiting is 0, sleep and loop
w_no_data(w) ==
  /\ NoReply
  /\ wpc[w] = "poll"
  /\ serial_connection = "open"
  /\ wpc' = [wpc EXCEPT ![w] = "loop"]
  /\ UNCHANGED << serial_connection, is_monitoring, shared, lock, wlocals, now,
                  nsamples, nworkers, handler, reader, history, ledger >>

\* lines 89-93: a line that float() accepts; current_time = time.time()
w_read_value(w) ==
  /\ NoReply
  /\ wpc[w] = "poll"
  /\ serial_connection = "open"
  /\ nsamples < MaxSamples
  /\ \E v \in Values, d \in Ticks :
       /\ wvalue' = [wvalue EXCEPT ![w] = v]
       /\ now' = now + d
       /\ wtime' = [wtime EXCEPT ![w] = now + d]
  /\ nsamples' = nsamples + 1
  /\ wpc' = [wpc EXCEPT ![w] = "lock"]
  /\ UNCHANGED << serial_connection, is_monitoring, shared, lock, wtmp, wstats,
                  nworkers, handler, reader, history, ledger >>

\* lines 90-92, 103-106: text that float() rejects with ValueError; skipped
w_read_text(w) ==
  /\ NoReply
  /\ wpc[w] = "poll"
  /\ serial_connection = "open"
  /\ wpc' = [wpc EXCEPT ![w] = "loop"]
  /\ UNCHANGED << serial_connection, is_monitoring, shared, lock, wlocals, now,
                  nsamples, nworkers, handler, reader, history, ledger >>

\* lines 90, 107-110: bytes that decode('utf-8') rejects. The UnicodeDecodeError
\* is raised at line 90, outside the inner try, so the outer handler takes it.
w_read_bytes(w) ==
  /\ NoReply
  /\ wpc[w] = "poll"
  /\ serial_connection = "open"
  /\ is_monitoring' = FALSE
  /\ wpc' = [wpc EXCEPT ![w] = "exit"]
  /\ UNCHANGED << serial_connection, shared, lock, wlocals, now, nsamples,
                  nworkers, handler, reader, history, ledger >>

\* lines 89-90, 107-110: in_waiting / readline raise: the port failed, was
\* closed by a handler, or serial_connection is None by now
w_read_error(w) ==
  /\ NoReply
  /\ wpc[w] = "poll"
  /\ is_monitoring' = FALSE
  /\ wpc' = [wpc EXCEPT ![w] = "exit"]
  /\ UNCHANGED << serial_connection, shared, lock, wlocals, now, nsamples,
                  nworkers, handler, reader, history, ledger >>

\* lines 95-99: with lock, ecg_data.append(value), the length test and the
\* slice ecg_data[-max_data_points:]
w_append(w) ==
  /\ NoReply
  /\ wpc[w] = "lock"
  /\ lock = 0
  /\ lock' = w
  /\ ecg_data' = Append(ecg_data, wvalue[w])
  /\ hist' = Append(hist, wvalue[w])
  /\ ecg_times' = Append(ecg_times, wtime[w])
  /\ wvalue' = [wvalue EXCEPT ![w] = 0]
  /\ IF Len(ecg_data') > max_data_points
     THEN /\ wtmp' = [wtmp EXCEPT ![w] = Truncate(ecg_data')]
          /\ wtmp_times' = [wtmp_times EXCEPT ![w] = Truncate(ecg_times')]
          /\ wpc' = [wpc EXCEPT ![w] = "store"]
     ELSE /\ wtmp' = wtmp
          /\ wtmp_times' = wtmp_times
          /\ wpc' = [wpc EXCEPT ![w] = "detect"]
  /\ UNCHANGED << serial_connection, is_monitoring, last_peaks, peak_values,
                  heart_rate, wtime, wstats, now, nsamples, nworkers,
                  handler, reader, stable, straddle, valid_seen, valid_sess,
                  stop_seen, stopped, evaluated, recorded, before >>

\* line 99: the assignment to ecg_data
w_trunc_store(w) ==
  /\ NoReply
  /\ wpc[w] = "store"
  /\ ecg_data' = wtmp[w]
  /\ ecg_times' = wtmp_times[w]
  /\ wtmp' = [wtmp EXCEPT ![w] = << >>]
  /\ wtmp_times' = [wtmp_times EXCEPT ![w] = << >>]
  /\ wpc' = [wpc EXCEPT ![w] = "detect"]
  /\ UNCHANGED << serial_connection, is_monitoring, last_peaks, peak_values,
                  heart_rate, lock, wvalue, wtime, wstats, now, nsamples, nworkers,
                  handler, reader, history, evaluated, recorded, before >>

\* leaving the with block, then line 106
EndStep(w) ==
  /\ lock' = 0
  /\ stable' = ecg_data
  /\ wtime' = [wtime EXCEPT ![w] = 0]
  /\ wstats' = [wstats EXCEPT ![w] = NoStats]

\* lines 35-48 of detect_peaks_and_calculate_hr: the warm-up guard and the statistics
w_detect(w) ==
  /\ NoReply
  /\ wpc[w] = "detect"
  /\ IF Len(ecg_data) < WarmUp
     THEN /\ EndStep(w)
          /\ wpc' = [wpc EXCEPT ![w] = "loop"]
     ELSE /\ wstats' = [wstats EXCEPT ![w] = RecentStats(ecg_data)]
          /\ wpc' = [wpc EXCEPT ![w] = "peak"]
          /\ UNCHANGED << lock, stable, wtime >>
  /\ UNCHANGED << serial_connection, is_monitoring, shared, wvalue, wtmp, now,
                  nsamples, nworkers, handler, reader, hist, straddle, valid_seen,
                  valid_sess, stop_seen, stopped, ledger >>

\* lines 51-80: the peak test, the two queues and the rate estimate
w_peak(w) ==
  /\ NoReply
  /\ wpc[w] = "peak"
  /\ IF Len(ecg_data) >= 3 /\ IsPeak(ecg_data, wstats[w])
     THEN /\ peak_values' = DequeAppend(peak_values, ecg_data[Len(ecg_data) - 1],
                                        PeakValuesMaxlen)
          /\ last_peaks' = DequeAppend(last_peaks, wtime[w] - PeakLag, LastPeaksMaxlen)
          /\ heart_rate' = RateEstimate(last_peaks', heart_rate)
          /\ NotePeaks(last_peaks')
          /\ recorded' = Append(recorded, ecg_times[Len(ecg_times) - 1])
     ELSE UNCHANGED << peak_values, last_peaks, heart_rate, valid_seen, valid_sess,
                       recorded >>
  /\ evaluated' = IF Len(ecg_data) >= 3
                  THEN Append(evaluated, ecg_times[Len(ecg_times) - 1])
                  ELSE evaluated
  /\ EndStep(w)
  /\ wpc' = [wpc EXCEPT ![w] = "loop"]
  /\ UNCHANGED << serial_connection, is_monitoring, ecg_data, wvalue, wtmp, now,
                  nsamples, nworkers, handler, reader, hist, straddle, stop_seen,
                  stopped, ecg_times, wtmp_times, before >>

\* lines 53-57, 107-110: ecg_data was rebound to [] after the test of line 51,
\* ecg_data[-2] raises IndexError, the with block releases the lock and the
\* outer handler ends the thread
w_peak_index_error(w) ==
  /\ NoReply
  /\ wpc[w] = "peak"
  /\ Len(ecg_data) < 3
  /\ EndStep(w)
  /\ is_monitoring' = FALSE
  /\ wpc' = [wpc EXCEPT ![w] = "exit"]
  /\ UNCHANGED << serial_connection, shared, wvalue, wtmp, now, nsamples, nworkers,
                  handler, reader, hist, straddle, valid_seen, valid_sess,
                  stop_seen, stopped, ledger >>

\* ---- connect -------------------------------------------------------------
\* a handler that does not test the connection
ConnectedUntested == TRUE

\* the test of lines 128 and 152
Connected == serial_connection = "open"

\* lines 124-129: the request arrives; an open connection is told to stop
connect_begin ==
  /\ NoReply
  /\ hpc = "idle"
  /\ nreq < MaxRequests
  /\ nworkers < MaxWorkers
  /\ nreq' = nreq + 1
  /\ request' = "connect"
  /\ response' = "none"
  /\ IF Connected
     THEN /\ is_monitoring' = FALSE
          /\ NoteStop
          /\ hpc' = "c_close"
     ELSE /\ hpc' = "c_open"
          /\ UNCHANGED << is_monitoring, stop_seen >>
  /\ before' = Snapshot
  /\ UNCHANGED << serial_connection, shared, lock, wpc, wlocals, now, nsamples,
                  nworkers, reader, hist, stable, straddle, valid_seen,
                  valid_sess, stopped, ecg_times, wtmp_times, evaluated,
                  recorded >>

\* lines 130-131: after the sleep, serial_connection.close()
connect_close ==
  /\ NoReply
  /\ hpc = "c_close"
  /\ serial_connection' = "closed"
  /\ hpc' = "c_open"
  /\ UNCHANGED << is_monitoring, shared, lock, wpc, wlocals, now, nsamples,
                  nworkers, nreq, request, response, reader, history, ledger >>

\* line 134: serial.Serial(port, baud_rate, timeout=1) returns
connect_open ==
  /\ NoReply
  /\ hpc = "c_open"
  /\ serial_connection' = "open"
  /\ stopped' = FALSE
  /\ before' = NoCall
  /\ hpc' = "c_reset"
  /\ UNCHANGED << is_monitoring, shared, lock, wpc, wlocals, now, nsamples,
                  nworkers, nreq, request, response, reader, hist, stable,
                  straddle, valid_seen, valid_sess, stop_seen, ecg_times,
                  wtmp_times, evaluated, recorded >>

\* lines 134, 144-145: serial.Serial raises; the failure is reported
connect_fail ==
  /\ NoReply
  /\ hpc = "c_open"
  /\ response' = "Failed to connect"
  /\ before' = NoCall
  /\ hpc' = "idle"
  /\ UNCHANGED << serial_connection, is_monitoring, shared, lock, wpc, wlocals,
                  now, nsamples, nworkers, nreq, request, reader, history,
                  ecg_times, wtmp_times, evaluated, recorded >>

\* line 135: ecg_data = []
connect_reset ==
  /\ NoReply
  /\ hpc = "c_reset"
  /\ ecg_data' = << >>
  /\ hist' = << >>
  /\ stable' = << >>
  /\ ecg_times' = << >>
  /\ straddle' = (lock # 0)
  /\ valid_sess' = Cardinality(PeakIntervals(last_peaks))
  /\ hpc' = "c_flag"
  /\ UNCHANGED << serial_connection, is_monitoring, last_peaks, peak_values,
                  heart_rate, lock, wpc, wlocals, now, nsamples, nworkers, nreq,
                  request, response, reader, valid_seen, stop_seen, stopped,
                  wtmp_times, evaluated, recorded, before >>

\* line 136: is_monitoring = True
connect_flag ==
  /\ NoReply
  /\ hpc = "c_flag"
  /\ is_monitoring' = TRUE
  /\ hpc' = "c_start"
  /\ UNCHANGED << serial_connection, shared, lock, wpc, wlocals, now, nsamples,
                  nworkers, nreq, request, response, reader, history, ledger >>

\* lines 139-143: the thread is started and success is returned
connect_start ==
  /\ NoReply
  /\ hpc = "c_start"
  /\ nworkers' = nworkers + 1
  /\ wpc' = [wpc EXCEPT ![nworkers + 1] = "loop"]
  /\ response' = "Connected"
  /\ hpc' = "idle"
  /\ UNCHANGED << serial_connection, is_monitoring, shared, lock, wlocals, now,
                  nsamples, nreq, request, reader, history, ledger >>

\* ---- disconnect ----------------------------------------------------------
\* lines 152-153, 158: the request arrives
disconnect_begin ==
  /\ NoReply
  /\ hpc = "idle"
  /\ nreq < MaxRequests
  /\ nreq' = nreq + 1
  /\ request' = "disconnect"
  /\ IF Connected
     THEN /\ is_monitoring' = FALSE
          /\ NoteStop
          /\ response' = "none"
          /\ hpc' = "d_close"
     ELSE /\ response' = "No active connection"
          /\ hpc' = "idle"
          /\ UNCHANGED << is_monitoring, stop_seen >>
  /\ UNCHANGED << serial_connection, shared, lock, wpc, wlocals, now, nsamples,
                  nworkers, reader, hist, stable, straddle, valid_seen,
                  valid_sess, stopped, ledger >>

\* lines 154-155: after the sleep, serial_connection.close()
disconnect_close ==
  /\ NoReply
  /\ hpc = "d_close"
  /\ serial_connection' = "closed"
  /\ hpc' = "d_none"
  /\ UNCHANGED << is_monitoring, shared, lock, wpc, wlocals, now, nsamples,
                  nworkers, nreq, request, response, reader, history, ledger >>

\* lines 156-157: serial_connection = None, and success is returned
disconnect_return ==
  /\ NoReply
  /\ hpc = "d_none"
  /\ serial_connection' = "None"
  /\ response' = "Disconnected"
  /\ stopped' = TRUE
  /\ hpc' = "idle"
  /\ UNCHANGED << is_monitoring, shared, lock, wpc, wlocals, now, nsamples,
                  nworkers, nreq, request, reader, hist, stable, straddle,
                  valid_seen, valid_sess, stop_seen, ledger >>

\* ---- the readers ---------------------------------------------------------
\* a get_data that copies ecg_data without taking the lock
get_data_unlocked ==
  /\ NoReply
  /\ data_to_send' = ecg_data
  /\ rpc' = "data"
  /\ UNCHANGED << serial_connection, is_monitoring, shared, lock, wpc, wlocals,
                  now, nsamples, nworkers, handler, hr_sent, history, ledger >>

\* lines 163-164: with lock: data_to_send = list(ecg_data)
get_data ==
  /\ NoReply
  /\ lock = 0
  /\ data_to_send' = ecg_data
  /\ rpc' = "data"
  /\ UNCHANGED << serial_connection, is_monitoring, shared, lock, wpc, wlocals,
                  now, nsamples, nworkers, handler, hr_sent, history, ledger >>

\* line 171: heart_rate is read without the lock
get_heart_rate ==
  /\ NoReply
  /\ hr_sent' = heart_rate
  /\ rpc' = "hr"
  /\ UNCHANGED << serial_connection, is_monitoring, shared, lock, wpc, wlocals,
                  now, nsamples, nworkers, handler, data_to_send, history, ledger >>

\* lines 165, 171: the response is sent
reader_return ==
  /\ rpc # "idle"
  /\ rpc' = "idle"
  /\ data_to_send' = << >>
  /\ hr_sent' = 0
  /\ UNCHANGED << serial_connection, is_monitoring, shared, lock, wpc, wlocals,
                  now, nsamples, nworkers, handler, history, ledger >>

\* ---- specification -------------------------------------------------------
Next ==
  \/ \E w \in Workers : w_loop(w)
  \/ \E w \in Workers : w_no_data(w)
  \/ \E w \in Workers : w_read_value(w)
  \/ \E w \in Workers : w_read_text(w)
  \/ \E w \in Workers : w_read_bytes(w)
  \/ \E w \in Workers : w_read_error(w)
  \/ \E w \in Workers : w_append(w)
  \/ \E w \in Workers : w_trunc_store(w)
  \/ \E w \in Workers : w_detect(w)
  \/ \E w \in Workers : w_peak(w)
  \/ \E w \in Workers : w_peak_index_error(w)
  \/ connect_begin \/ connect_close \/ connect_open \/ connect_fail
  \/ connect_reset \/ connect_flag \/ connect_start
  \/ disconnect_begin \/ disconnect_close \/ disconnect_return
  \/ get_data \/ get_heart_rate \/ reader_return

Spec == Init /\ [][Next]_vars

\* The threads are scheduled fairly: a thread that can take a step again and
\* again eventually takes one (a reply being sent or the lock being held only
\* delays the others).
worker(w) ==
  \/ w_loop(w) \/ w_no_data(w) \/ w_read_value(w) \/ w_read_text(w)
  \/ w_read_bytes(w) \/ w_read_error(w) \/ w_append(w) \/ w_trunc_store(w)
  \/ w_detect(w) \/ w_peak(w) \/ w_peak_index_error(w)

handling ==
  \/ connect_close \/ connect_open \/ connect_fail \/ connect_reset
  \/ connect_flag \/ connect_start \/ disconnect_close \/ disconnect_return

\* the same program, followed also from the state with two workers alive
OverlapSpec == (Init \/ InitOverlap) /\ [][Next]_vars

FairSpec ==
  /\ Spec
  /\ \A w \in Workers : SF_vars(worker(w))
  /\ SF_vars(handling)
  /\ WF_vars(reader_return)

\* ---- properties ----------------------------------------------------------
\* the last step of a successful connect: the thread is started, success returned
SessionStarted == hpc = "c_start" /\ hpc' = "idle"

C2_UnknownAfterStart == [][SessionStarted => heart_rate' = 0]_vars

\* C3: right after every successful connect the sample buffer and both peak
\* queues are empty.
C3_EmptyAfterStart ==
  [][SessionStarted =>
       (ecg_data' = << >> /\ last_peaks' = << >> /\ peak_values' = << >>)]_vars

C5_SnapshotIsStable ==
  rpc = "data" => (data_to_send = stable /\ Len(data_to_send) <= max_data_points)

C5_Witness ==
  /\ rpc = "data"
  /\ Len(data_to_send) = max_data_points
  /\ data_to_send[max_data_points] = 5
  /\ \E w \in Workers : wpc[w] = "lock"

\* C6: at no time are two workers alive at once.
C6_OneWorker == Cardinality({w \in Workers : Alive(w)}) <= 1

\* C7: once a disconnect has returned, the buffer, the peak queues and the
\* heart rate do not change until a new session starts.
C7_FrozenAfterStop == [][stopped => UNCHANGED shared]_vars

\* C8: a worker that was running when a stop request was made eventually exits.
C8_StopObserved == \A w \in Workers : [](stop_seen[w] => <>(wpc[w] = "exit"))

\* C9: a disconnect that follows a successful disconnect reports "No active
\* connection" and changes neither the connection, the monitoring flag, the
\* buffer, the peak queues nor the heart rate.
C9_SecondDisconnect ==
  [][(/\ hpc = "idle"
      /\ request = "disconnect"
      /\ response = "Disconnected"
      /\ nreq' = nreq + 1
      /\ request' = "disconnect")
     => (/\ response' = "No active connection"
         /\ hpc' = "idle"
         /\ serial_connection' = "None"
         /\ UNCHANGED << serial_connection, is_monitoring, shared >>)]_vars

C9_Witness ==
  /\ hpc = "idle"
  /\ nreq >= 1
  /\ request = "disconnect"
  /\ response = "No active connection"
  /\ stopped

\* C10: a malformed line, text that is no number or bytes that are no text, is
\* discarded: monitoring goes on, the worker loops, the shared state is unchanged.
C10_MalformedSkipped ==
  [][\A w \in Workers :
       (w_read_text(w) \/ w_read_bytes(w)) =>
         (is_monitoring' = is_monitoring /\ wpc'[w] = "loop" /\ UNCHANGED shared)]_vars

\* C11: a read failure during a session ends monitoring, makes the worker exit
\* and releases the transport (the serial connection is no longer open), while
\* the buffer and the heart rate are left as they were.
C11_ReadFailureReleases ==
  [][\A w \in Workers :
       (w_read_error(w) /\ serial_connection = "open") =>
         (/\ is_monitoring' = FALSE
          /\ wpc'[w] = "exit"
          /\ serial_connection' # "open"
          /\ UNCHANGED << ecg_data, heart_rate >>)]_vars

\* C12: a connect that fails to open the port leaves the connection and the
\* monitoring flag exactly as they were when it was called, and changes neither
\* the buffer, the peak queues nor the heart rate.
C12_FailedConnectChangesNothing ==
  [][connect_fail =>
       (<< serial_connection', is_monitoring' >> = before /\ UNCHANGED shared)]_vars

\* C13: while fewer than 10 samples have been recorded since the session
\* started, the session's worker appends to neither peak queue and leaves the
\* heart rate as it is.
C13_WarmUp ==
  [][\A w \in Workers :
       (w_peak(w) /\ w = nworkers /\ hpc = "idle" /\ Len(hist) < WarmUp) =>
         UNCHANGED << last_peaks, peak_values, heart_rate >>]_vars

\* the consecutive differences of the queue lp that lie in [0.3 s, 2.0 s]
RECURSIVE C14_InRange(_)
C14_InRange(lp) ==
  IF Len(lp) < 2 THEN << >>
  ELSE LET d == lp[2] - lp[1]
       IN (IF 30 <= d /\ d <= 200 THEN << d >> ELSE << >>) \o C14_InRange(Tail(lp))

\* floor(60 / mean of the differences in range), or hr when none is in range
C14_Reference(lp, hr) ==
  LET ds == C14_InRange(lp)
  IN IF ds = << >> THEN hr ELSE (6000 * Len(ds)) \div SumSeq(ds)

\* C14: whenever a peak is recorded and the peak timestamp queue then has at
\* least 2 entries, the heart rate becomes floor(60 / mean of the consecutive
\* differences that lie in [0.3 s, 2.0 s]); differences out of that range are
\* left out of the mean, and when none is in range the heart rate stays as it was.
C14_RateIsReference ==
  [][(recorded' # recorded /\ Len(last_peaks') >= 2) =>
       heart_rate' = C14_Reference(last_peaks', heart_rate)]_vars

\* peaks 0.2 s and then 0.8 s apart: the rate is 75, from the second interval alone
C14_Witness ==
  /\ Len(last_peaks) = 3
  /\ last_peaks[2] - last_peaks[1] = 20
  /\ last_peaks[3] - last_peaks[2] = 80
  /\ heart_rate = 75
  /\ Len(recorded) = 3

\* a clean pulse: the buffer e holds at least 10 samples, its sample x second
\* from the end is above both neighbours and at least 2.5 + 1.5 standard
\* deviations above the mean of the last 20 samples, sigma being positive
C15_CleanPulse(e) ==
  /\ Len(e) >= 10
  /\ LET x == e[Len(e) - 1]
         w == IF Len(e) >= 20 THEN SubSeq(e, Len(e) - 19, Len(e)) ELSE e
         n == Len(w)
         d == n * x - SumSeq(w)
         var == n * SumSq(w) - SumSeq(w) * SumSeq(w)
     IN /\ x > e[Len(e) - 2]
        /\ x > e[Len(e)]
        /\ var > 0
        /\ d >= 0
        /\ d * d >= 16 * var

\* C15: the ingestion step that finds a clean pulse second from the end of the
\* buffer records it as a peak: its value is appended to peak_values and one
\* timestamp to last_peaks.
C15_CleanPulseRecorded ==
  [][\A w \in Workers :
       (w_peak(w) /\ C15_CleanPulse(ecg_data)) =>
         (/\ peak_values' = Append(peak_values, ecg_data[Len(ecg_data) - 1])
          /\ Len(last_peaks') = Len(last_peaks) + 1
          /\ SubSeq(last_peaks', 1, Len(last_peaks)) = last_peaks)]_vars

\* a step has just recorded the clean pulse that is second from the end
C15_Witness ==
  /\ lock = 0
  /\ nsamples >= 2
  /\ C15_CleanPulse(ecg_data)
  /\ stable = ecg_data
  /\ recorded # << >>
  /\ recorded[Len(recorded)] = ecg_times[Len(ecg_times) - 1]
  /\ peak_values[Len(peak_values)] = ecg_data[Len(ecg_data) - 1]

\* C16: the readers and the reset of a session start take the lock for their
\* access to the buffer, the peak queues and the heart rate: none of them reads
\* or writes that state while a worker is inside its critical section.
C16_AccessUnderLock ==
  [][(get_data \/ get_heart_rate \/ connect_reset) => lock = 0]_vars

\* C17: the entries of the peak timestamp queue never decrease from oldest to
\* newest.
C17_Monotone ==
  \A i \in 1..(Len(last_peaks) - 1) : last_peaks[i] <= last_peaks[i + 1]

\* C18: the timestamp appended to last_peaks for a peak x is the arrival time
\* of x itself, the sample second from the end, minus 0.01 s.
C18_StampOfThePeak ==
  [][recorded' # recorded =>
       last_peaks'[Len(last_peaks')] = ecg_times[Len(ecg_times) - 1] - 1]_vars

\* C19: the heart rate, and every heart rate that get_heart_rate returns, is 0
\* (unknown) or an integer from 30 to 200.
C19_RateInRange ==
  /\ heart_rate = 0 \/ (30 <= heart_rate /\ heart_rate <= 200)
  /\ rpc = "hr" => (hr_sent = 0 \/ (30 <= hr_sent /\ hr_sent <= 200))

\* a rate is returned that was computed with an interval of 0.2 s in the queue
C19_Witness ==
  /\ rpc = "hr"
  /\ hr_sent # 0
  /\ Len(last_peaks) = 3
  /\ last_peaks[2] - last_peaks[1] < 30

\* how often the log s holds the arrival time t
C20_Times(s, t) == Cardinality({i \in 1..Len(s) : s[i] = t})

\* no arrival time is in the log s twice
C20_NoRepeat(s) == Cardinality({s[i] : i \in 1..Len(s)}) = Len(s)

\* the two peak queues have had the same number of appends
C20_Together == Len(last_peaks) = Min(Len(peak_values), LastPeaksMaxlen)

\* C20 as stated: when an ingestion step ends, the sample before the one it
\* appended has been tested as a peak candidate exactly once; no sample is
\* recorded as a peak twice, and the two peak queues get their appends together.
C20_TestedExactlyOnce ==
  [][\A w \in Workers :
       ((w_detect(w) \/ w_peak(w)) /\ lock' = 0 /\ Len(ecg_times') >= 2) =>
         (/\ C20_Times(evaluated', ecg_times'[Len(ecg_times') - 1]) = 1
          /\ C20_NoRepeat(recorded')
          /\ C20_Together')]_vars

\* C20 as amended: no sample is tested as a peak candidate in more than one
\* ingestion step, no sample is recorded as a peak twice, and the two peak
\* queues get their appends together.
C20_TestedAtMostOnce ==
  /\ C20_NoRepeat(evaluated)
  /\ C20_NoRepeat(recorded)
  /\ C20_Together

\* past the truncation, a second peak has been recorded by the step that tested it
C20_Witness ==
  /\ lock = 0
  /\ Len(hist) > max_data_points
  /\ Len(recorded) = 2
  /\ Len(peak_values) = 2
  /\ evaluated[Len(evaluated)] = recorded[2]

====
